---- MODULE Spec2Model ----
(***************************************************************************)
(* Model of the MatchBin metrics and selectors of                          *)
(* source/tools/matchbin_utils.h (Empirical).                              *)
(*                                                                         *)
(* Scores, thresholds, skews and baselines are doubles in the source; the  *)
(* model measures them in integer ticks of one common unit, and keeps the  *)
(* quotients that the code forms (weights, distances) as exact fractions   *)
(* <<numerator, denominator>>.  Positions in vectors are the source's      *)
(* 0-based positions; the element at position j of a sequence s is s[j+1]. *)
(***************************************************************************)
EXTENDS Integers, Sequences, FiniteSets, TLC

VARIABLES
  uids,       \* emp::vector<size_t>& uids: the candidate list of the query
  scores,     \* std::unordered_map<size_t,double>& scores: the score table
  rand,       \* state of the emp::Random the roulette selectors refer to
  selectors,  \* DynamicSelector::selectors
  mode,       \* DynamicSelector::mode
  phase,      \* "idle", "ready" (a query is prepared) or "returned" (a selector ran)
  call,       \* the selector call that ran last, with its n
  pre,        \* candidate list, score table and random state that call started from
  res,        \* the list the call returned (meaningful when status is "ok" or "ub")
  status,     \* how the call ended: "ok", "throw", "abort" or "ub"
  invoked,    \* positions of the DynamicSelector's children invoked by the call
  replay,     \* outcome of running the last roulette call again from pre
  mcall,      \* the last metric evaluation: metric, modifier (mod), width or Max
              \* (par), arguments, distance d, for Streak the two runs it
              \* measured, for AbsDiff how the build treats int overflow
  objects,    \* the DynamicSelector objects of the program: state and selectors
  heap,       \* the child selectors allocated so far: how often each was deleted
  used,       \* the children called through a DynamicSelector, and whether the
              \* child had been deleted before the call
  fault       \* "none", or how a delete or call of a deleted child ended

\* the state of the objects' lifetimes
ownership == <<objects, heap, used, fault>>

vars == <<uids, scores, rand, selectors, mode, phase, call, pre, res, status,
          invoked, replay, mcall, ownership>>

(***************************************************************************)
(* Bounds                                                                  *)
(***************************************************************************)
MaxRankedUids == 5
MaxRouletteUids == 3
MaxPartialUids == 3
MaxScore == 2
MaxThresh == 1
MaxN == 3
MaxSkew == 2
MaxBaseline == 1
MaxChildren == 2
MaxDynamicUids == 2
MaxDynamicN == 2
MaxWidth == 4
IntBits == 3
SizeBits == 5
NextUpMax == 9
MaxObjects == 3      \* DynamicSelector objects constructed or copied into
MaxHeap == 2         \* child selectors allocated

\* std::numeric_limits<double>::infinity(); also the value a negative
\* ratio numerator stands for
Infinity == 0 - 1

NoUid == 0
None == [none |-> TRUE]

(***************************************************************************)
(* Helpers on vectors                                                      *)
(***************************************************************************)
Range(s) == {s[i] : i \in 1..Len(s)}

\* std::swap(u[i], u[j]) on 0-based positions
Swap(u, i, j) ==
  [k \in 1..Len(u) |-> IF k = i + 1 THEN u[j + 1]
                       ELSE IF k = j + 1 THEN u[i + 1]
                       ELSE u[k]]

\* emp::vector<size_t>(uids.begin(), uids.begin() + back)
Prefix(u, back) == SubSeq(u, 1, back)

Pow2(k) == 2 ^ k

RECURSIVE Orders(_)
\* every arrangement of a set of uids as a vector
Orders(S) ==
  IF S = {} THEN {<<>>}
  ELSE UNION {{<<x>> \o t : t \in Orders(S \ {x})} : x \in S}

(***************************************************************************)
(* Thresholds                                                              *)
(***************************************************************************)
\* ThreshRatio::num < 0 ? infinity : num / den
Thresh(num) == IF num < 0 THEN Infinity ELSE num

LeqThresh(s, thresh) == thresh = Infinity \/ s <= thresh

(***************************************************************************)
(* RankedSelector                                                          *)
(***************************************************************************)
Scored(u, sc, from) == \A j \in from..(Len(u) - 1) : u[j + 1] \in DOMAIN sc

RECURSIVE ScanMinNoThresh(_, _, _, _, _)
\* ScanMin without the test against the threshold
ScanMinNoThresh(u, sc, j, minIndex, thresh) ==
  IF j >= Len(u) THEN minIndex
  ELSE IF minIndex = -1 \/ sc[u[j + 1]] < sc[u[minIndex + 1]]
       THEN ScanMinNoThresh(u, sc, j + 1, j, thresh)
       ELSE ScanMinNoThresh(u, sc, j + 1, minIndex, thresh)

RECURSIVE ScanMin(_, _, _, _, _)
\* the inner loop over j: the position of the first smallest score that is
\* within the threshold, -1 when there is none
ScanMin(u, sc, j, minIndex, thresh) ==
  IF j >= Len(u) THEN minIndex
  ELSE IF /\ (minIndex = -1 \/ sc[u[j + 1]] < sc[u[minIndex + 1]])
          /\ LeqThresh(sc[u[j + 1]], thresh)
       THEN ScanMin(u, sc, j + 1, j, thresh)
       ELSE ScanMin(u, sc, j + 1, minIndex, thresh)

RECURSIVE SelectionSortSkip(_, _, _, _, _)
\* SelectionSort whose inner loop starts at back + 1
SelectionSortSkip(u, sc, back, n, thresh) ==
  IF back >= n THEN [uids |-> u, back |-> back, status |-> "ok"]
  ELSE IF ~Scored(u, sc, back) THEN [uids |-> u, back |-> back, status |-> "throw"]
  ELSE LET minIndex == ScanMin(u, sc, back + 1, -1, thresh)
       IN IF minIndex = -1 THEN [uids |-> u, back |-> back, status |-> "ok"]
          ELSE SelectionSortSkip(Swap(u, back, minIndex), sc, back + 1, n, thresh)

RECURSIVE SelectionSort(_, _, _, _, _)
\* the bounded selection sort; scores.at throws on a uid without a score
SelectionSort(u, sc, back, n, thresh) ==
  IF back >= n THEN [uids |-> u, back |-> back, status |-> "ok"]
  ELSE IF ~Scored(u, sc, back) THEN [uids |-> u, back |-> back, status |-> "throw"]
  ELSE LET minIndex == ScanMin(u, sc, back, -1, thresh)
       IN IF minIndex = -1 THEN [uids |-> u, back |-> back, status |-> "ok"]
          ELSE SelectionSort(Swap(u, back, minIndex), sc, back + 1, n, thresh)

RECURSIVE SortedOrders(_, _)
\* the arrangements std::sort may leave: ascending by score, ties in any order
SortedOrders(S, sc) ==
  IF S = {} THEN {<<>>}
  ELSE UNION {{<<x>> \o t : t \in SortedOrders(S \ {x}, sc)} :
              x \in {y \in S : \A z \in S : sc[y] <= sc[z]}}

RECURSIVE PrefixScanShort(_, _, _, _, _)
\* PrefixScan stopping one element early (back + 1 < n)
PrefixScanShort(u, sc, back, n, thresh) ==
  IF back < Len(u) /\ back + 1 < n
  THEN IF u[back + 1] \notin DOMAIN sc
       THEN [uids |-> u, back |-> back, status |-> "throw"]
       ELSE IF LeqThresh(sc[u[back + 1]], thresh)
            THEN PrefixScanShort(u, sc, back + 1, n, thresh)
            ELSE [uids |-> u, back |-> back, status |-> "ok"]
  ELSE [uids |-> u, back |-> back, status |-> "ok"]

RECURSIVE PrefixScan(_, _, _, _, _)
\* while (back < uids.size() && back < n && scores.at(uids[back]) <= thresh) ++back
PrefixScan(u, sc, back, n, thresh) ==
  IF back < Len(u) /\ back < n
  THEN IF u[back + 1] \notin DOMAIN sc
       THEN [uids |-> u, back |-> back, status |-> "throw"]
       ELSE IF LeqThresh(sc[u[back + 1]], thresh)
            THEN PrefixScan(u, sc, back + 1, n, thresh)
            ELSE [uids |-> u, back |-> back, status |-> "ok"]
  ELSE [uids |-> u, back |-> back, status |-> "ok"]

\* the full sort followed by the scan of the leading prefix; a comparison of
\* a uid without a score throws out of std::sort, which then leaves the
\* elements in an unspecified order
FullSort(u, sc, n, thresh) ==
  IF Len(u) >= 2 /\ ~Scored(u, sc, 0)
  THEN {[uids |-> v, back |-> 0, status |-> "throw"] : v \in Orders(Range(u))}
  ELSE IF Len(u) >= 2
       THEN {PrefixScan(v, sc, 0, n, thresh) : v \in SortedOrders(Range(u), sc)}
       ELSE {PrefixScan(u, sc, 0, n, thresh)}

\* n < std::log2(uids.size()); log2(0) is -infinity
UseSelection(u, n) == Len(u) > 0 /\ Pow2(n) < Len(u)

Outcome(u, sc, r, result, st) ==
  [uids |-> u, scores |-> sc, rand |-> r, res |-> result, status |-> st]

\* RankedSelector::operator(): the outcomes of one call
RankedSelector(num, u, sc, n, r) ==
  LET thresh == Thresh(num)
      ends == IF UseSelection(u, n)
              THEN {SelectionSort(u, sc, 0, n, thresh)}
              ELSE FullSort(u, sc, n, thresh)
  IN {Outcome(e.uids, sc, r,
              IF e.status = "ok" THEN Prefix(e.uids, e.back) ELSE <<>>,
              e.status) : e \in ends}

(***************************************************************************)
(* Fractions <<numerator, denominator>> with a positive denominator        *)
(***************************************************************************)
Frac(a, b) == <<a, b>>
FAdd(x, y) == <<x[1] * y[2] + y[1] * x[2], x[2] * y[2]>>
FMul(x, y) == <<x[1] * y[1], x[2] * y[2]>>
FSub(x, y) == <<x[1] * y[2] - y[1] * x[2], x[2] * y[2]>>
\* x / y for y > 0
FDiv(x, y) == <<x[1] * y[2], x[2] * y[1]>>
FLess(x, y) == x[1] * y[2] < y[1] * x[2]

(***************************************************************************)
(* emp::Random: a seeded generator, one state step per draw                *)
(***************************************************************************)
RandMod == 4
RandMul == 5
RandInc == 3

NextRand(r) == (r * RandMul + RandInc) % RandMod

\* Random::GetDouble(max): a value of [0, max), a function of the state
GetDouble(r, max) == FMul(Frac(r, RandMod), max)

(***************************************************************************)
(* IndexMap: weights over [0, p)                                           *)
(***************************************************************************)
RECURSIVE GetWeightFrom(_, _)
GetWeightFrom(w, k) ==
  IF k > Len(w) THEN Frac(0, 1) ELSE FAdd(w[k], GetWeightFrom(w, k + 1))

\* IndexMap::GetWeight(): the sum of all weights
GetWeight(w) == GetWeightFrom(w, 1)

RECURSIVE IndexFrom(_, _, _, _)
IndexFrom(w, pos, idx, cum) ==
  LET upto == FAdd(cum, w[idx + 1])
  IN IF FLess(pos, upto) \/ idx + 1 >= Len(w) THEN idx
     ELSE IndexFrom(w, pos, idx + 1, upto)

\* IndexMap::Index(pos) for pos in [0, GetWeight()): the position whose
\* interval of cumulative weight contains pos
Index(w, pos) == IndexFrom(w, pos, 0, Frac(0, 1))

(***************************************************************************)
(* RouletteSelector                                                        *)
(***************************************************************************)
\* scores[uid] of std::unordered_map: a missing key is inserted with 0.0
Subscript(sc, uid) ==
  [x \in DOMAIN sc \cup {uid} |-> IF x \in DOMAIN sc THEN sc[x] ELSE 0]

MinScore(a, b) == IF a = Infinity THEN b ELSE IF b = Infinity THEN a
                  ELSE IF b < a THEN b ELSE a

RECURSIVE Partition(_, _, _, _, _, _)
\* the loop "partition by thresh"
Partition(u, sc, i, partition, min_score, thresh) ==
  IF i >= Len(u)
  THEN [uids |-> u, scores |-> sc, partition |-> partition, min_score |-> min_score]
  ELSE LET sc2 == Subscript(sc, u[i + 1])
           s == sc2[u[i + 1]]
       IN IF LeqThresh(s, thresh)
          THEN Partition(Swap(u, i, partition), sc2, i + 1, partition + 1,
                         MinScore(min_score, s), thresh)
          ELSE Partition(u, sc2, i + 1, partition, MinScore(min_score, s), thresh)

\* the baseline taken to be max_baseline, without the minimum
RouletteBaselineClamped(min_score, max_baseline) ==
  IF max_baseline = Infinity THEN min_score ELSE max_baseline

\* baseline = std::min(min_score, max_baseline)
RouletteBaseline(min_score, max_baseline) == MinScore(min_score, max_baseline)

\* match_index.Adjust(p, 1.0 / (skew + scores[uids[p]] - baseline)) for p < partition
MatchIndex(u, sc, partition, skew, baseline) ==
  [p \in 1..partition |-> Frac(1, skew + sc[u[p]] - baseline)]

RECURSIVE DrawDistinct(_, _, _, _, _, _)
\* Draw that stops after as many draws as match_index has entries
DrawDistinct(u, w, r, j, n, result) ==
  IF j >= n \/ j >= Len(w) THEN [res |-> result, rand |-> r]
  ELSE LET match_pos == GetDouble(r, GetWeight(w))
           idx == Index(w, match_pos)
       IN DrawDistinct(u, w, NextRand(r), j + 1, n, Append(result, u[idx + 1]))

RECURSIVE Draw(_, _, _, _, _, _)
\* the sampling loop over j on a non-empty match_index
Draw(u, w, r, j, n, result) ==
  IF j >= n THEN [res |-> result, rand |-> r]
  ELSE LET match_pos == GetDouble(r, GetWeight(w))
           idx == Index(w, match_pos)
       IN Draw(u, w, NextRand(r), j + 1, n, Append(result, u[idx + 1]))

RECURSIVE Steps(_, _)
Steps(r, k) == IF k = 0 THEN r ELSE Steps(NextRand(r), k - 1)

\* the sampling loop on an empty match_index: every Index(0.0) is outside
\* the map's domain [0, 0).  A build with assertions stops at the first one;
\* otherwise the position read is arbitrary, and uids[idx] is an element of
\* the list or, beyond its end, whatever lies there (NoUid).
DrawEmpty(u, r, n) ==
  {[res |-> <<>>, rand |-> NextRand(r), status |-> "abort"]}
  \cup {[res |-> [j \in 1..n |-> IF idx < Len(u) THEN u[idx + 1] ELSE NoUid],
         rand |-> Steps(r, n), status |-> "ub"] : idx \in 0..Len(u)}

\* RouletteSelector::operator(): the outcomes of one call
RouletteSelector(num, skew, max_num, u, sc, n, r) ==
  LET thresh == Thresh(num)
      max_baseline == Thresh(max_num)
      part == Partition(u, sc, 0, 0, Infinity, thresh)
      baseline == RouletteBaseline(part.min_score, max_baseline)
      match_index == MatchIndex(part.uids, part.scores, part.partition, skew, baseline)
  IN IF n = 0
     THEN {Outcome(part.uids, part.scores, r, <<>>, "ok")}
     ELSE IF part.partition = 0
     THEN {Outcome(part.uids, part.scores, d.rand, d.res, d.status) :
           d \in DrawEmpty(part.uids, r, n)}
     ELSE LET d == Draw(part.uids, match_index, r, 0, n, <<>>)
          IN {Outcome(part.uids, part.scores, d.rand, d.res, "ok")}

(***************************************************************************)
(* DynamicSelector                                                         *)
(***************************************************************************)
Ranked(num) == [kind |-> "Ranked", thresh |-> num, skew |-> 0, maxbl |-> 0]
Roulette(num, skew, max_num) ==
  [kind |-> "Roulette", thresh |-> num, skew |-> skew, maxbl |-> max_num]

\* a virtual call of Selector::operator() on a selector object
SelectorCall(sel, u, sc, n, r) ==
  IF sel.kind = "Ranked" THEN RankedSelector(sel.thresh, u, sc, n, r)
  ELSE RouletteSelector(sel.thresh, sel.skew, sel.maxbl, u, sc, n, r)

\* the selector objects a DynamicSelector is given as children
ChildPool == {Ranked(-1), Ranked(0), Roulette(-1, 1, 1)}

\* DynamicSelector forwarding to its first child whatever the mode
DynamicSelectorFirst(sels, m, u, sc, n, r) ==
  IF m < Len(sels)
  THEN {[out |-> o, invoked |-> {0}] : o \in SelectorCall(sels[1], u, sc, n, r)}
  ELSE {[out |-> Outcome(u, sc, r, <<>>, "abort"), invoked |-> {}]}

\* DynamicSelector::operator(): the outcomes of one call, with the positions
\* of selectors that were invoked.  With mode past the end, emp_assert stops
\* a build with assertions; otherwise selectors[mode] is read past the end
\* of the vector and whatever selector object the stray pointer leads to runs.
DynamicSelector(sels, m, u, sc, n, r) ==
  IF m < Len(sels)
  THEN {[out |-> o, invoked |-> {m}] : o \in SelectorCall(sels[m + 1], u, sc, n, r)}
  ELSE {[out |-> Outcome(u, sc, r, <<>>, "abort"), invoked |-> {}]}
       \cup {[out |-> [o EXCEPT !.status = "ub"], invoked |-> {m}] :
             o \in UNION {SelectorCall(g, u, sc, n, r) : g \in ChildPool}}

(***************************************************************************)
(* Queries: MatchBin hands a selector the uids of its entries in insertion *)
(* order and a score table built for the query                             *)
(***************************************************************************)
ScoreTables(k) ==
  [1..k -> 0..MaxScore]
  \cup (IF k <= MaxPartialUids
        THEN UNION {[(1..k) \ {x} -> 0..MaxScore] : x \in 1..k}
        ELSE {})

Queries(maxUids) ==
  UNION {{[uids |-> [i \in 1..k |-> i], scores |-> sc] : sc \in ScoreTables(k)} :
         k \in 0..maxUids}

Threshes == -1..MaxThresh

Start ==
  /\ uids = <<>>
  /\ scores = <<>>
  /\ rand \in 0..(RandMod - 1)
  /\ selectors = <<>>
  /\ mode = 0
  /\ phase = "idle"
  /\ call = None
  /\ pre = None
  /\ res = <<>>
  /\ status = "none"
  /\ invoked = {}
  /\ replay = None
  /\ mcall = None
  /\ objects = [o \in 1..MaxObjects |-> [state |-> "none", selectors |-> <<>>]]
  /\ heap = <<>>
  /\ used = {}
  /\ fault = "none"

\* a query begins: the candidate list and the score table are built
NewQuery(maxUids) ==
  /\ phase = "idle"
  /\ \E q \in Queries(maxUids) : uids' = q.uids /\ scores' = q.scores
  /\ phase' = "ready"
  /\ UNCHANGED <<ownership, rand, selectors, mode, call, pre, res, status, invoked, replay, mcall>>

\* the query is over: its result has been handed out and its scratch
\* structures (candidate list, score table) are gone
EndQuery ==
  /\ phase = "returned"
  /\ uids' = <<>>
  /\ scores' = <<>>
  /\ phase' = "idle"
  /\ call' = None
  /\ pre' = None
  /\ res' = <<>>
  /\ status' = "none"
  /\ invoked' = {}
  /\ replay' = None
  /\ UNCHANGED <<ownership, rand, selectors, mode, mcall>>

\* the effect of a selector call that ended as o
Returns(c, o, inv) ==
  /\ call' = c
  /\ pre' = [uids |-> uids, scores |-> scores, rand |-> rand]
  /\ uids' = o.uids
  /\ scores' = o.scores
  /\ rand' = o.rand
  /\ res' = o.res
  /\ status' = o.status
  /\ invoked' = inv
  /\ replay' = None
  /\ phase' = "returned"

RankedCall ==
  /\ phase = "ready"
  /\ \E num \in Threshes, n \in 0..MaxN :
       \E o \in RankedSelector(num, uids, scores, n, rand) :
         Returns([sel |-> Ranked(num), n |-> n, mode |-> mode], o, {})
  /\ UNCHANGED <<ownership, selectors, mode, mcall>>

RouletteCall ==
  /\ phase = "ready"
  /\ \E num \in Threshes, skew \in 1..MaxSkew, max_num \in -1..MaxBaseline, n \in 0..MaxN :
       \E o \in RouletteSelector(num, skew, max_num, uids, scores, n, rand) :
         Returns([sel |-> Roulette(num, skew, max_num), n |-> n, mode |-> mode], o, {})
  /\ UNCHANGED <<ownership, selectors, mode, mcall>>

\* the same roulette call once more, by the same build, on the inputs the
\* last one was given
RouletteReplay ==
  /\ phase = "returned"
  /\ call # None
  /\ call.sel.kind = "Roulette"
  /\ replay = None
  /\ \E o \in SelectorCall(call.sel, pre.uids, pre.scores, call.n, pre.rand) :
       /\ o.status = status
       /\ replay' = [res |-> o.res, uids |-> o.uids, rand |-> o.rand]
  /\ UNCHANGED <<ownership, uids, scores, rand, selectors, mode, phase, call, pre, res,
                 status, invoked, mcall>>

\* selectors.push_back(child)
AddSelector ==
  /\ phase # "returned"
  /\ Len(selectors) < MaxChildren
  /\ \E g \in ChildPool : selectors' = Append(selectors, g)
  /\ UNCHANGED <<ownership, uids, scores, rand, mode, phase, call, pre, res, status,
                 invoked, replay, mcall>>

\* mode = m
SetMode ==
  /\ phase # "returned"
  /\ \E m \in 0..MaxChildren : m # mode /\ mode' = m
  /\ UNCHANGED <<ownership, uids, scores, rand, selectors, phase, call, pre, res, status,
                 invoked, replay, mcall>>

DynamicCall ==
  /\ phase = "ready"
  /\ \E n \in 0..MaxDynamicN :
       \E d \in DynamicSelector(selectors, mode, uids, scores, n, rand) :
         Returns([sel |-> [kind |-> "Dynamic", thresh |-> 0, skew |-> 0, maxbl |-> 0],
                  n |-> n, mode |-> mode], d.out, d.invoked)
  /\ UNCHANGED <<ownership, selectors, mode, mcall>>

InitRanked == Start
NextRanked == NewQuery(MaxRankedUids) \/ RankedCall \/ EndQuery
SpecRanked == InitRanked /\ [][NextRanked]_vars

InitRoulette == Start
NextRoulette == NewQuery(MaxRouletteUids) \/ RouletteCall \/ RouletteReplay \/ EndQuery
SpecRoulette == InitRoulette /\ [][NextRoulette]_vars

InitDynamic == Start
NextDynamic == NewQuery(MaxDynamicUids) \/ AddSelector \/ SetMode \/ DynamicCall \/ EndQuery
SpecDynamic == InitDynamic /\ [][NextDynamic]_vars

(***************************************************************************)
(* Lifetimes of DynamicSelector objects and of their child selectors       *)
(***************************************************************************)
\* everything but the lifetimes
query == <<uids, scores, rand, selectors, mode, phase, call, pre, res, status,
           invoked, replay, mcall>>

\* how deleting, or calling through, an emp::Ptr whose child has already
\* been deleted can end: a build that tracks its pointers stops the program,
\* any other build goes on with the freed memory
Faults == {"abort", "ub"}

Live(o) == objects[o].state = "live"

\* the children the selectors vector of a live object points to
Held(o) == {objects[o].selectors[i] : i \in 1..Len(objects[o].selectors)}

\* for (auto &ptr : selectors) ptr.Delete();  from position i on, in a build
\* that ends a delete of a deleted child as build does
RECURSIVE DeleteAll(_, _, _, _, _)
DeleteAll(h, ptrs, i, build, f) ==
  IF i > Len(ptrs) THEN [heap |-> h, fault |-> f]
  ELSE IF h[ptrs[i]] = 0
       THEN DeleteAll([h EXCEPT ![ptrs[i]] = 1], ptrs, i + 1, build, f)
       ELSE IF build = "abort" THEN [heap |-> h, fault |-> "abort"]
            ELSE DeleteAll([h EXCEPT ![ptrs[i]] = h[ptrs[i]] + 1], ptrs, i + 1, build, "ub")

\* DynamicSelector x;
Construct ==
  /\ fault = "none"
  /\ \E o \in 1..MaxObjects :
       /\ objects[o].state = "none"
       /\ objects' = [objects EXCEPT ![o] = [state |-> "live", selectors |-> <<>>]]
  /\ UNCHANGED <<heap, used, fault, query>>

\* x.selectors.push_back(emp::NewPtr<...>()): a new child is allocated and
\* handed to x
AddChild ==
  /\ fault = "none"
  /\ Len(heap) < MaxHeap
  /\ \E o \in 1..MaxObjects :
       /\ Live(o)
       /\ objects' = [objects EXCEPT
                        ![o].selectors = Append(objects[o].selectors, Len(heap) + 1)]
  /\ heap' = Append(heap, 0)
  /\ UNCHANGED <<used, fault, query>>

\* DynamicSelector y(x): the copy constructor the compiler supplies copies
\* the vector of pointers
CopyConstruct ==
  /\ fault = "none"
  /\ \E x \in 1..MaxObjects, y \in 1..MaxObjects :
       /\ Live(x)
       /\ objects[y].state = "none"
       /\ objects' = [objects EXCEPT
                        ![y] = [state |-> "live", selectors |-> objects[x].selectors]]
  /\ UNCHANGED <<heap, used, fault, query>>

\* y = x: the copy assignment the compiler supplies replaces y's vector of
\* pointers by a copy of x's
CopyAssign ==
  /\ fault = "none"
  /\ \E x \in 1..MaxObjects, y \in 1..MaxObjects :
       /\ x # y
       /\ Live(x)
       /\ Live(y)
       /\ objects' = [objects EXCEPT ![y].selectors = objects[x].selectors]
  /\ UNCHANGED <<heap, used, fault, query>>

\* ~DynamicSelector()
Destroy ==
  /\ fault = "none"
  /\ \E o \in 1..MaxObjects, build \in Faults :
       /\ Live(o)
       /\ LET d == DeleteAll(heap, objects[o].selectors, 1, build, "none")
          IN /\ heap' = d.heap
             /\ fault' = d.fault
       /\ objects' = [objects EXCEPT ![o] = [state |-> "destroyed", selectors |-> <<>>]]
  /\ UNCHANGED <<used, query>>

\* x(uids, scores, n) with x.mode = m: the call goes through selectors[m]
CallChild ==
  /\ fault = "none"
  /\ \E o \in 1..MaxObjects :
       /\ Live(o)
       /\ \E m \in 0..(Len(objects[o].selectors) - 1) :
            LET c == objects[o].selectors[m + 1]
            IN IF heap[c] = 0
               THEN /\ used' = used \cup {[child |-> c, deleted |-> FALSE]}
                    /\ fault' = fault
               ELSE \E f \in Faults :
                      /\ fault' = f
                      /\ used' = IF f = "ub"
                                 THEN used \cup {[child |-> c, deleted |-> TRUE]}
                                 ELSE used
  /\ UNCHANGED <<objects, heap, query>>

InitOwnership == Start
NextOwnership ==
  Construct \/ AddChild \/ CopyConstruct \/ CopyAssign \/ Destroy \/ CallChild
SpecOwnership == InitOwnership /\ [][NextOwnership]_vars

(***************************************************************************)
(* emp::BitSet<Width>: a bit vector, held as the unsigned integer it reads *)
(* as (bit 0 is the least significant)                                     *)
(***************************************************************************)
BitSets(Width) == 0..(Pow2(Width) - 1)

Bit(x, i) == (x \div Pow2(i)) % 2

RECURSIVE XorFrom(_, _, _, _)
XorFrom(Width, a, b, i) ==
  IF i >= Width THEN 0
  ELSE (IF Bit(a, i) # Bit(b, i) THEN Pow2(i) ELSE 0) + XorFrom(Width, a, b, i + 1)

\* a ^ b
Xor(Width, a, b) == XorFrom(Width, a, b, 0)

\* ~a
Not(Width, a) == Pow2(Width) - 1 - a

\* a - b, wrapping at 2^Width
Minus(Width, a, b) == (a - b + Pow2(Width)) % Pow2(Width)

RECURSIVE CountOnesFrom(_, _, _)
CountOnesFrom(Width, x, i) ==
  IF i >= Width THEN 0 ELSE Bit(x, i) + CountOnesFrom(Width, x, i + 1)

\* BitSet::CountOnes()
CountOnes(Width, x) == CountOnesFrom(Width, x, 0)

RECURSIVE LongestFrom(_, _, _, _, _)
LongestFrom(Width, x, i, run, best) ==
  IF i >= Width THEN best
  ELSE LET r == IF Bit(x, i) = 1 THEN run + 1 ELSE 0
       IN LongestFrom(Width, x, i + 1, r, IF r > best THEN r ELSE best)

\* BitSet::LongestSegmentOnes(): the length of the longest run of 1-bits
LongestSegmentOnes(Width, x) == LongestFrom(Width, x, 0, 0, 0)

\* BitSet::MaxDouble(): the largest value a BitSet<Width> reads as
MaxDouble(Width) == Pow2(Width) - 1

(***************************************************************************)
(* Metrics: each returns the fraction its operator() computes              *)
(***************************************************************************)
\* HammingMetric<Width>::operator()
HammingMetric(Width, a, b) == Frac(CountOnes(Width, Xor(Width, a, b)), Width)

\* int at the model's width
IntMax == Pow2(IntBits - 1) - 1
IntMin == 0 - Pow2(IntBits - 1)
Ints == IntMin..IntMax
WrapInt(x) == ((x - IntMin) % Pow2(IntBits)) + IntMin
Abs(x) == IF x < 0 THEN 0 - x ELSE x

\* AbsDiffMetric::operator(): a - b and std::abs are computed in int.  When
\* a - b or the absolute value leaves the range of int the behaviour is
\* undefined: the build may wrap around or may carry the exact value in a
\* wider register into the conversion to double.
Builds == {"wrap", "wide"}

\* the numerator std::abs(a - b) as a build of one kind computes it
AbsDiffNumerator(build, a, b) ==
  LET exact == a - b
      wrapped == WrapInt(exact)
  IN IF exact \in Ints /\ exact # IntMin THEN Abs(exact)
     ELSE IF build = "wide" THEN Abs(exact)
     ELSE IF wrapped = IntMin THEN IntMin ELSE Abs(wrapped)

AbsDiffBuild(build, a, b) == Frac(AbsDiffNumerator(build, a, b), IntMax)

AbsDiffMetric(a, b) == {AbsDiffBuild(build, a, b) : build \in Builds}

\* size_t at the model's width
SizeTs == 0..(Pow2(SizeBits) - 1)
WrapSize(x) == x % Pow2(SizeBits)

\* NextUpMetric adding Max where the source adds Max + 1
NextUpMetricOffByOne(Max, a, b) ==
  LET difference == WrapSize(Max + b + Pow2(SizeBits) - a) % (Max + 1)
  IN Frac(difference % (Max + 1), Max)

\* NextUpMetric measuring from the tag back to the query (a - b)
NextUpMetricBackward(Max, a, b) ==
  LET difference == WrapSize((Max + 1) + a + Pow2(SizeBits) - b) % (Max + 1)
  IN Frac(difference % (Max + 1), Max)

\* NextUpMetric<Max>::operator()
NextUpMetric(Max, a, b) ==
  LET difference == WrapSize((Max + 1) + b + Pow2(SizeBits) - a) % (Max + 1)
  IN Frac(difference % (Max + 1), Max)

\* AsymmetricWrapMetric with the operands of the subtraction exchanged
AsymmetricWrapMetricBackward(Width, a, b) == Frac(Minus(Width, a, b), MaxDouble(Width))

\* AsymmetricWrapMetric<Width>::operator()
AsymmetricWrapMetric(Width, a, b) == Frac(Minus(Width, b, a), MaxDouble(Width))

\* AsymmetricNoWrapMetric with max_dist = MaxDouble(), without the + 1.0
AsymmetricNoWrapMetricNoPlusOne(Width, a, b) ==
  LET max_dist == MaxDouble(Width)
  IN Frac(IF b >= a THEN Minus(Width, b, a) ELSE max_dist, max_dist)

\* AsymmetricNoWrapMetric<Width>::operator()
AsymmetricNoWrapMetric(Width, a, b) ==
  LET max_dist == MaxDouble(Width) + 1
  IN Frac(IF b >= a THEN Minus(Width, b, a) ELSE max_dist, max_dist)

\* SymmetricWrapMetric taking the larger of the two differences
SymmetricWrapMetricMax(Width, a, b) ==
  LET max_dist == Frac(MaxDouble(Width) + 1, 2)
      x == Minus(Width, a, b)
      y == Minus(Width, b, a)
  IN FDiv(Frac(IF y < x THEN x ELSE y, 1), max_dist)

\* SymmetricWrapMetric<Width>::operator()
SymmetricWrapMetric(Width, a, b) ==
  LET max_dist == Frac(MaxDouble(Width) + 1, 2)
      x == Minus(Width, a, b)
      y == Minus(Width, b, a)
  IN FDiv(Frac(IF y < x THEN y ELSE x, 1), max_dist)

\* SymmetricNoWrapMetric always subtracting b from a
SymmetricNoWrapMetricOneWay(Width, a, b) ==
  Frac(Minus(Width, a, b), MaxDouble(Width))

\* SymmetricNoWrapMetric<Width>::operator()
SymmetricNoWrapMetric(Width, a, b) ==
  Frac(IF a > b THEN Minus(Width, a, b) ELSE Minus(Width, b, a), MaxDouble(Width))

\* StreakMetric<Width>::ProbabilityKBitSequence
ProbabilityKBitSequence(Width, k) == Frac(Width - k + 1, Pow2(k))

\* the two runs StreakMetric<Width>::operator() measures
StreakSame(Width, a, b) == LongestSegmentOnes(Width, Not(Width, Xor(Width, a, b)))
StreakDifferent(Width, a, b) == LongestSegmentOnes(Width, Xor(Width, a, b))

\* StreakMetric<Width>::operator()
StreakMetric(Width, a, b) ==
  LET ps == ProbabilityKBitSequence(Width, StreakSame(Width, a, b))
      pd == ProbabilityKBitSequence(Width, StreakDifferent(Width, a, b))
      match == FDiv(pd, FAdd(ps, pd))
  IN FSub(Frac(1, 1), match)

\* BitSet::ROTL_SELF<1>(): rotate left by one bit
Rotl(Width, x) == ((2 * x) % Pow2(Width)) + (x \div Pow2(Width - 1))

\* the BitSet metrics by name
BitSetMetrics == {"Hamming", "AsymmetricWrap", "AsymmetricNoWrap",
                  "SymmetricWrap", "SymmetricNoWrap", "Streak"}

BitSetMetric(name, Width, a, b) ==
  CASE name = "Hamming" -> HammingMetric(Width, a, b)
    [] name = "AsymmetricWrap" -> AsymmetricWrapMetric(Width, a, b)
    [] name = "AsymmetricNoWrap" -> AsymmetricNoWrapMetric(Width, a, b)
    [] name = "SymmetricWrap" -> SymmetricWrapMetric(Width, a, b)
    [] name = "SymmetricNoWrap" -> SymmetricNoWrapMetric(Width, a, b)
    [] name = "Streak" -> StreakMetric(Width, a, b)

RECURSIVE SlideLoop(_, _, _, _, _, _)
\* the loop of SlideMod::operator() over i, with dup rotated once per round
SlideLoop(name, Width, dup, b, i, best) ==
  IF i >= Width THEN best
  ELSE LET d == BitSetMetric(name, Width, dup, b)
       IN SlideLoop(name, Width, Rotl(Width, dup), b, i + 1,
                    IF FLess(d, best) THEN d ELSE best)

\* SlideMod stopping one rotation early (i + 1 < metric.width())
SlideModShort(name, Width, a, b) == SlideLoop(name, Width, a, b, 1, Frac(1, 1))

\* SlideMod<Metric>::operator()
SlideMod(name, Width, a, b) == SlideLoop(name, Width, a, b, 0, Frac(1, 1))

Evaluated(name, mod, build, par, a, b, d) ==
  /\ mcall' = [metric |-> name, mod |-> mod, build |-> build,
               par |-> par, a |-> a, b |-> b, d |-> d,
               same |-> IF name = "Streak" THEN StreakSame(par, a, b) ELSE 0,
               different |-> IF name = "Streak" THEN StreakDifferent(par, a, b) ELSE 0]
  /\ UNCHANGED <<ownership, uids, scores, rand, selectors, mode, phase, call, pre, res,
                 status, invoked, replay>>

\* a metric over BitSet<Width> is evaluated on a query and a tag
BitSetMetricCall ==
  /\ mcall = None
  /\ \E name \in BitSetMetrics, Width \in 1..MaxWidth :
       \E a \in BitSets(Width), b \in BitSets(Width) :
         Evaluated(name, "none", "any", Width, a, b, BitSetMetric(name, Width, a, b))

\* a SlideMod over a BitSet metric is evaluated on a query and a tag
SlideCall ==
  /\ mcall = None
  /\ \E name \in BitSetMetrics, Width \in 1..MaxWidth :
       \E a \in BitSets(Width), b \in BitSets(Width) :
         Evaluated(name, "Slide", "any", Width, a, b, SlideMod(name, Width, a, b))

AbsDiffCall ==
  /\ mcall = None
  /\ \E a \in Ints, b \in Ints, build \in Builds :
       /\ AbsDiffBuild(build, a, b) \in AbsDiffMetric(a, b)
       /\ Evaluated("AbsDiff", "none", build, IntBits, a, b, AbsDiffBuild(build, a, b))

NextUpCall ==
  /\ mcall = None
  /\ \E Max \in 1..NextUpMax, a \in SizeTs, b \in SizeTs :
       Evaluated("NextUp", "none", "any", Max, a, b, NextUpMetric(Max, a, b))

\* the distance has been consumed by the caller
MetricDone ==
  /\ mcall # None
  /\ mcall' = None
  /\ UNCHANGED <<ownership, uids, scores, rand, selectors, mode, phase, call, pre, res,
                 status, invoked, replay>>

InitMetric == Start
NextMetric == BitSetMetricCall \/ SlideCall \/ AbsDiffCall \/ NextUpCall \/ MetricDone
SpecMetric == InitMetric /\ [][NextMetric]_vars

(***************************************************************************)
(* Properties of RankedSelector (checked under SpecRanked)                 *)
(***************************************************************************)
RankedReturned == phase = "returned" /\ call.sel.kind = "Ranked"

AllScored == \A i \in 1..Len(pre.uids) : pre.uids[i] \in DOMAIN pre.scores

\* C1: a RankedSelector call on a candidate list whose uids all have a score
\* returns at most n uids, in non-decreasing order of score, each with a
\* score within the threshold (a negative threshold parameter is +infinity).
C1_RankedSortedWithinThreshold ==
  (RankedReturned /\ AllScored) =>
    /\ status = "ok"
    /\ Len(res) <= call.n
    /\ \A i \in 1..Len(res) : \A j \in 1..Len(res) :
         i < j => pre.scores[res[i]] <= pre.scores[res[j]]
    /\ \A i \in 1..Len(res) :
         call.sel.thresh < 0 \/ pre.scores[res[i]] <= call.sel.thresh

\* two rounds of the selection sort moved uids to the front, under a finite
\* threshold that excludes a candidate
C1_Witness ==
  /\ RankedReturned /\ AllScored
  /\ Len(pre.uids) = 5 /\ call.n = 2 /\ call.sel.thresh >= 0
  /\ Len(res) = 2
  /\ pre.scores[res[1]] < pre.scores[res[2]]
  /\ res[1] # pre.uids[1] /\ res[2] # pre.uids[2]
  /\ \E i \in 1..5 : pre.scores[pre.uids[i]] > call.sel.thresh

RECURSIVE RefInsert(_, _, _)
\* x put into an ascending list behind every element that is not larger
RefInsert(sorted, x, sc) ==
  IF sorted = <<>> THEN <<x>>
  ELSE IF sc[Head(sorted)] <= sc[x]
       THEN <<Head(sorted)>> \o RefInsert(Tail(sorted), x, sc)
       ELSE <<x>> \o sorted

RECURSIVE RefStableSort(_, _, _)
\* the stable ascending sort of the first k elements of u
RefStableSort(u, k, sc) ==
  IF k = 0 THEN <<>> ELSE RefInsert(RefStableSort(u, k - 1, sc), u[k], sc)

RECURSIVE RefFilter(_, _, _)
\* the elements of u with a score within the threshold parameter num
RefFilter(u, sc, num) ==
  IF u = <<>> THEN <<>>
  ELSE (IF num < 0 \/ sc[Head(u)] <= num THEN <<Head(u)>> ELSE <<>>)
       \o RefFilter(Tail(u), sc, num)

RefRanked ==
  LET kept == RefFilter(pre.uids, pre.scores, call.sel.thresh)
  IN RefStableSort(kept, Len(kept), pre.scores)

\* C2: RankedSelector returns min(n, k) uids, k the number of candidates
\* within the threshold; their scores are, position by position, those of the
\* first min(n, k) elements of the stable ascending sort of the candidates
\* within the threshold; the returned uids are distinct candidates.
C2_RankedIsSortedPrefix ==
  (RankedReturned /\ AllScored) =>
    LET ref == RefRanked
        m == IF call.n < Len(ref) THEN call.n ELSE Len(ref)
    IN /\ Len(res) = m
       /\ \A i \in 1..Len(res) :
            /\ i <= Len(ref)
            /\ res[i] \in Range(pre.uids)
            /\ pre.scores[res[i]] = pre.scores[ref[i]]
       /\ \A i \in 1..Len(res) : \A j \in 1..Len(res) : i # j => res[i] # res[j]

\* the full sort ran, the threshold cut the result below n, and the result
\* differs from the reference in the order of two equal scores
C2_Witness ==
  /\ RankedReturned /\ AllScored
  /\ Len(pre.uids) = 4 /\ call.n = 3 /\ call.sel.thresh >= 0
  /\ Len(res) = 2
  /\ res # SubSeq(RefRanked, 1, 2)
  /\ pre.scores[res[1]] = pre.scores[res[2]]

\* the two branches of RankedSelector run on the inputs of the last call
SelectionBranch ==
  SelectionSort(pre.uids, pre.scores, 0, call.n, Thresh(call.sel.thresh))
FullSortBranch ==
  FullSort(pre.uids, pre.scores, call.n, Thresh(call.sel.thresh))

\* C19: on the same candidate list, score table, n and threshold the bounded
\* selection sort and the full sort with its prefix scan return lists of
\* the same length with the same scores position by position, whichever of
\* them the test n < log2(|uids|) picks.
C19_BranchesAgree ==
  (RankedReturned /\ AllScored) =>
    LET ScoresOf(e) == [i \in 1..e.back |-> pre.scores[e.uids[i]]]
        returned == <<status, [i \in 1..Len(res) |-> pre.scores[res[i]]]>>
    IN IF Len(pre.uids) > 0 /\ 2 ^ call.n < Len(pre.uids)
       THEN \* the call ran the selection sort: every full sort agrees with it
            \A f \in FullSortBranch : <<f.status, ScoresOf(f)>> = returned
       ELSE \* the call ran a full sort: the selection sort agrees with it
            <<SelectionBranch.status, ScoresOf(SelectionBranch)>> = returned

\* the call ran two rounds of the selection sort, and a full sort of the
\* same list returns the same scores with another uid
C19_Witness ==
  /\ RankedReturned /\ AllScored
  /\ Len(pre.uids) = 5 /\ call.n = 2
  /\ Len(res) = 2
  /\ res = Prefix(SelectionBranch.uids, 2)
  /\ \E f \in FullSortBranch : Prefix(f.uids, f.back) # res

(***************************************************************************)
(* Properties of RouletteSelector (checked under SpecRoulette)             *)
(***************************************************************************)
RouletteReturned == phase = "returned" /\ call.sel.kind = "Roulette"

WithinThresh(uid) ==
  /\ uid \in DOMAIN pre.scores
  /\ (call.sel.thresh < 0 \/ pre.scores[uid] <= call.sel.thresh)

\* C3: a RouletteSelector call on a candidate list in which no uid has a
\* score within the threshold (the empty list included) returns the empty
\* list, whatever n is, without failing or reading outside the list.
C3_RouletteEmptyPrefixReturnsEmpty ==
  (RouletteReturned /\ AllScored
     /\ \A i \in 1..Len(pre.uids) : ~WithinThresh(pre.uids[i])) =>
    (status = "ok" /\ res = <<>>)

\* C4: every uid a RouletteSelector call returns is a candidate whose score
\* is within the threshold.
C4_RouletteReturnsWithinThresh ==
  (RouletteReturned /\ AllScored) =>
    \A i \in 1..Len(res) : res[i] \in Range(pre.uids) /\ WithinThresh(res[i])

\* C5: when at least one candidate has a score within the threshold, a
\* RouletteSelector call returns exactly n uids, each a candidate of the
\* list; n may exceed the number of candidates and uids may repeat.
C5_RouletteReturnsN ==
  (RouletteReturned /\ \E i \in 1..Len(pre.uids) : WithinThresh(pre.uids[i])) =>
    /\ status = "ok"
    /\ Len(res) = call.n
    /\ \A i \in 1..Len(res) : res[i] \in Range(pre.uids)

\* three draws from two candidates: a uid repeats and both are drawn
C5_Witness ==
  /\ RouletteReturned /\ AllScored
  /\ Len(pre.uids) = 2 /\ call.n = 3 /\ Len(res) = 3
  /\ Range(res) = Range(pre.uids)
  /\ \A i \in 1..2 : WithinThresh(pre.uids[i])

SameElements(u, v) ==
  /\ Len(u) = Len(v)
  /\ \A x \in Range(u) \cup Range(v) :
       Cardinality({i \in 1..Len(u) : u[i] = x}) = Cardinality({i \in 1..Len(v) : v[i] = x})

\* C6: a selector call leaves the score table as it was and the candidate
\* list a permutation of what it was, whether or not every candidate has an
\* entry in the table.
C6_SelectorFrame ==
  phase = "returned" => (scores = pre.scores /\ SameElements(uids, pre.uids))

\* C9: a RouletteSelector call run again on the same candidate list, score
\* table, n and random state returns the same list and leaves the candidate
\* list and the random source as the first run left them.
C9_RouletteDeterministic ==
  (phase = "returned" /\ replay # None) =>
    replay = [res |-> res, uids |-> uids, rand |-> rand]

\* the partition, baseline and weights of the last roulette call
CallPartition ==
  Partition(pre.uids, pre.scores, 0, 0, Infinity, Thresh(call.sel.thresh))
CallBaseline == RouletteBaseline(CallPartition.min_score, Thresh(call.sel.maxbl))
CallWeights ==
  MatchIndex(CallPartition.uids, CallPartition.scores, CallPartition.partition,
             call.sel.skew, CallBaseline)

\* C20: with skew > 0 and scores >= 0 the baseline of a roulette call on a
\* non-empty candidate list is the smaller of the smallest score of all
\* candidates and max_baseline, so 0 <= baseline <= max_baseline and
\* baseline <= score(u) for every candidate u; the prefix holds exactly the
\* candidates within the threshold, and each gets the weight
\* 1/(skew + score(u) - baseline), which is positive and at most 1/skew.
C20_RouletteWeights ==
  (RouletteReturned /\ Len(pre.uids) > 0) =>
    LET score(u) == IF u \in DOMAIN pre.scores THEN pre.scores[u] ELSE 0
    IN \A part \in {CallPartition}, all \in {Range(pre.uids)} :
        \A beta \in {RouletteBaseline(part.min_score, Thresh(call.sel.maxbl))},
           least \in {CHOOSE x \in all : \A y \in all : score(x) <= score(y)} :
         \A w \in {MatchIndex(part.uids, part.scores, part.partition,
                              call.sel.skew, beta)} :
          /\ call.sel.skew > 0
          /\ beta = (IF call.sel.maxbl >= 0 /\ call.sel.maxbl < score(least)
                     THEN call.sel.maxbl ELSE score(least))
          /\ 0 <= beta
          /\ call.sel.maxbl >= 0 => beta <= call.sel.maxbl
          /\ \A u \in all : beta <= score(u)
          /\ {part.uids[p] : p \in 1..part.partition}
               = {u \in all : call.sel.thresh < 0 \/ score(u) <= call.sel.thresh}
          /\ \A p \in 1..part.partition :
               /\ w[p][1] = 1
               /\ w[p][2] = call.sel.skew + score(part.uids[p]) - beta
               /\ w[p][2] > 0
               /\ w[p][2] >= call.sel.skew

\* two candidates of different weight were drawn from, a third one was
\* above the threshold, and max_baseline was above the smallest score
C20_Witness ==
  /\ RouletteReturned /\ AllScored
  /\ Len(pre.uids) = 3 /\ call.sel.thresh = 1 /\ call.sel.maxbl = 1
  /\ CallPartition.partition = 2
  /\ CallBaseline = 0
  /\ CallWeights[1] # CallWeights[2]
  /\ Len(res) = 2 /\ res[1] # res[2]

(***************************************************************************)
(* Properties of DynamicSelector (checked under SpecDynamic)               *)
(***************************************************************************)
DynamicReturned == phase = "returned" /\ call.sel.kind = "Dynamic"

\* C7: a DynamicSelector call with mode m below the number of children ends
\* as a direct call of children[m] on the same candidate list, score table,
\* n and random state can end (same result, same candidate list, same score
\* table, same random state), and invokes no child but children[m].
C7_DynamicForwards ==
  (DynamicReturned /\ mode < Len(selectors)) =>
    /\ Outcome(uids, scores, rand, res, status)
         \in SelectorCall(selectors[mode + 1], pre.uids, pre.scores, call.n, pre.rand)
    /\ invoked = {mode}

\* the second of two children of different kinds answered the query and
\* reordered the candidate list
C7_Witness ==
  /\ DynamicReturned
  /\ Len(selectors) = 2 /\ mode = 1
  /\ selectors[1].kind = "Roulette" /\ selectors[2].kind = "Ranked"
  /\ status = "ok" /\ Len(res) = 2 /\ uids # pre.uids
  /\ invoked = {1}

\* C8: a DynamicSelector call whose mode is not below the number of children
\* is rejected: no selector is invoked, no list is returned, and the
\* candidate list and the score table stay as they were.
C8_DynamicRejectsBadMode ==
  (DynamicReturned /\ mode >= Len(selectors)) =>
    /\ status = "abort"
    /\ invoked = {}
    /\ res = <<>>
    /\ uids = pre.uids
    /\ scores = pre.scores

(***************************************************************************)
(* Properties of the metrics (checked under SpecMetric)                    *)
(***************************************************************************)
MetricReturned == mcall # None

\* C10: the distance of a value to itself is 0 under Hamming, AbsDiff,
\* NextUp, AsymmetricWrap, AsymmetricNoWrap, SymmetricWrap and
\* SymmetricNoWrap; under Streak of width W the longest mismatch run is 0,
\* the longest match run is W and the distance is 1 - P(0)/(P(W) + P(0))
\* with P(k) = (W - k + 1)/2^k, that is 1/(1 + (W + 1) * 2^W), which is
\* strictly positive.
C10_SelfDistance ==
  (MetricReturned /\ mcall.a = mcall.b) =>
    IF mcall.metric = "Streak"
    THEN /\ mcall.different = 0
         /\ mcall.same = mcall.par
         /\ mcall.d[2] > 0 /\ mcall.d[1] > 0
         /\ mcall.d[1] * (1 + (mcall.par + 1) * (2 ^ mcall.par)) = mcall.d[2]
    ELSE mcall.d[1] = 0 /\ mcall.d[2] > 0

\* NextUp was evaluated on a value and itself at the top of its range
C10_Witness ==
  /\ MetricReturned
  /\ mcall.metric = "NextUp"
  /\ mcall.a = mcall.b /\ mcall.a = mcall.par /\ mcall.par > 1
  /\ mcall.d[1] = 0

Plain(names) == MetricReturned /\ mcall.mod = "none" /\ mcall.metric \in names

\* C11: Hamming, SymmetricWrap, SymmetricNoWrap, AsymmetricWrap and
\* AsymmetricNoWrap distances lie in [0,1] for every pair of tags; the NextUp
\* distance lies in [0,1] for a, b in [0, Max]; the Streak distance lies
\* strictly between 0 and 1.
C11_MetricRange ==
  /\ Plain({"Hamming", "SymmetricWrap", "SymmetricNoWrap", "AsymmetricWrap",
            "AsymmetricNoWrap"}) =>
       (mcall.d[2] > 0 /\ 0 <= mcall.d[1] /\ mcall.d[1] <= mcall.d[2])
  /\ (Plain({"NextUp"}) /\ mcall.a <= mcall.par /\ mcall.b <= mcall.par) =>
       (mcall.d[2] > 0 /\ 0 <= mcall.d[1] /\ mcall.d[1] <= mcall.d[2])
  /\ Plain({"Streak"}) =>
       (mcall.d[2] > 0 /\ 0 < mcall.d[1] /\ mcall.d[1] < mcall.d[2])

\* SymmetricWrap reached its largest distance, half way round the ring
C11_Witness ==
  /\ Plain({"SymmetricWrap"})
  /\ mcall.par = 3 /\ mcall.a = 1 /\ mcall.b = 5
  /\ mcall.d[1] = mcall.d[2]

\* C12: AbsDiffMetric returns a value in [0,1] for every pair of ints,
\* pairs of opposite sign included.
C12_AbsDiffRange ==
  Plain({"AbsDiff"}) => (0 <= mcall.d[1] /\ mcall.d[1] <= mcall.d[2])

\* C13: the numerator AbsDiffMetric divides is the mathematical |a - b| for
\* every pair of ints: it is never a wrapped-around or negative value.
C13_AbsDiffNoOverflow ==
  Plain({"AbsDiff"}) =>
    /\ mcall.d[1] >= 0
    /\ mcall.d[1] = (IF mcall.a >= mcall.b THEN mcall.a - mcall.b ELSE mcall.b - mcall.a)

\* the distance of the tag to the query, by the same build
Swapped ==
  CASE mcall.metric = "AbsDiff" -> AbsDiffBuild(mcall.build, mcall.b, mcall.a)
    [] mcall.metric = "NextUp" -> NextUpMetric(mcall.par, mcall.b, mcall.a)
    [] OTHER -> BitSetMetric(mcall.metric, mcall.par, mcall.b, mcall.a)

\* C14: d(a,b) = d(b,a) for every pair under Hamming, SymmetricWrap,
\* SymmetricNoWrap, Streak and AbsDiff; under NextUp (Max >= 2),
\* AsymmetricWrap and AsymmetricNoWrap (Width >= 2) some pair has
\* d(a,b) # d(b,a).
C14_Symmetry ==
  /\ Plain({"Hamming", "SymmetricWrap", "SymmetricNoWrap", "Streak", "AbsDiff"}) =>
       mcall.d[1] * Swapped[2] = Swapped[1] * mcall.d[2]
  /\ (Plain({"AsymmetricWrap", "AsymmetricNoWrap"}) /\ mcall.par >= 2) =>
       \E x \in BitSets(mcall.par), y \in BitSets(mcall.par) :
         LET dxy == BitSetMetric(mcall.metric, mcall.par, x, y)
             dyx == BitSetMetric(mcall.metric, mcall.par, y, x)
         IN dxy[1] * dyx[2] # dyx[1] * dxy[2]
  /\ (Plain({"NextUp"}) /\ mcall.par >= 2) =>
       \E x \in 0..mcall.par, y \in 0..mcall.par :
         LET dxy == NextUpMetric(mcall.par, x, y)
             dyx == NextUpMetric(mcall.par, y, x)
         IN dxy[1] * dyx[2] # dyx[1] * dxy[2]

\* SymmetricNoWrap was evaluated on a query below its tag
C14_Witness ==
  /\ Plain({"SymmetricNoWrap"})
  /\ mcall.par = 3 /\ mcall.a = 2 /\ mcall.b = 7
  /\ mcall.d[1] = 5

\* C15: under AsymmetricNoWrap every pair with b < a gets one and the same
\* sentinel distance; a pair with b >= a gets (b - a) over the sentinel's
\* divisor, which is strictly below the sentinel (so in-order distances grow
\* strictly with b - a and never reach the sentinel).
C15_AsymNoWrapSentinel ==
  Plain({"AsymmetricNoWrap"}) =>
    LET sentinel == AsymmetricNoWrapMetric(mcall.par, 1, 0)
    IN IF mcall.b < mcall.a
       THEN mcall.d = sentinel
       ELSE /\ mcall.d[2] = sentinel[2]
            /\ mcall.d[1] = mcall.b - mcall.a
            /\ mcall.d[1] * sentinel[2] < sentinel[1] * mcall.d[2]

\* the in-order pair with the largest difference
C15_Witness ==
  /\ Plain({"AsymmetricNoWrap"})
  /\ mcall.par = 3 /\ mcall.a = 0 /\ mcall.b = 7
  /\ mcall.d[1] = 7

RECURSIVE RotlBy(_, _, _)
\* x rotated left by k bits
RotlBy(Width, x, k) == IF k = 0 THEN x ELSE RotlBy(Width, Rotl(Width, x), k - 1)

\* C17: Slide(M)(a,b) is the least of M(rot_left(a,k), b) over k in [0,W),
\* and rotating the query does not change it.
C17_SlideIsMinOverRotations ==
  (MetricReturned /\ mcall.mod = "Slide") =>
    LET W == mcall.par
        at(k) == BitSetMetric(mcall.metric, W, RotlBy(W, mcall.a, k), mcall.b)
    IN /\ \E k \in 0..(W - 1) : mcall.d[1] * at(k)[2] = at(k)[1] * mcall.d[2]
       /\ \A k \in 0..(W - 1) : mcall.d[1] * at(k)[2] <= at(k)[1] * mcall.d[2]
       /\ \A k \in 0..(W - 1) :
            LET r == SlideMod(mcall.metric, W, RotlBy(W, mcall.a, k), mcall.b)
            IN r[1] * mcall.d[2] = mcall.d[1] * r[2]

\* W = 4, a = 1100, b = 0011: Hamming is 1 and Slide(Hamming) is 0
C17_Witness ==
  /\ MetricReturned /\ mcall.mod = "Slide" /\ mcall.metric = "Hamming"
  /\ mcall.par = 4 /\ mcall.a = 12 /\ mcall.b = 3
  /\ mcall.d[1] = 0
  /\ HammingMetric(4, 12, 3) = <<4, 4>>

\* C18: for a, b in [0, Max], NextUp's d(a,b) * Max = (b - a) mod (Max + 1):
\* 0 exactly when b = a, one step of 1/Max per step b moves forward from a,
\* and 1 at b = a - 1 (mod Max + 1).
C18_NextUpIsForwardDistance ==
  (Plain({"NextUp"}) /\ mcall.a <= mcall.par /\ mcall.b <= mcall.par) =>
    LET m == mcall.par + 1
        steps == IF mcall.b >= mcall.a THEN mcall.b - mcall.a
                 ELSE mcall.b + m - mcall.a
    IN /\ mcall.d[2] = mcall.par
       /\ mcall.d[1] = steps
       /\ (mcall.d[1] = 0) <=> (mcall.b = mcall.a)
       /\ (mcall.d[1] = mcall.d[2]) <=> (mcall.b = (mcall.a + mcall.par) % m)

\* Max = 9, query 8, tag 0: distance 2/9, below that of tags 3 (5/9) and 7 (1)
C18_Witness ==
  /\ Plain({"NextUp"})
  /\ mcall.par = 9 /\ mcall.a = 8 /\ mcall.b = 0
  /\ mcall.d = <<2, 9>>
  /\ NextUpMetric(9, 8, 3) = <<5, 9>>
  /\ NextUpMetric(9, 8, 7) = <<9, 9>>

(***************************************************************************)
(* C21                                                                     *)
(***************************************************************************)
\* no child has been deleted more than once
NeverTwice == \A c \in 1..Len(heap) : heap[c] <= 1

\* a child that has not been deleted is still held by a live DynamicSelector
NeverLeaked ==
  \A c \in 1..Len(heap) :
    heap[c] = 0 => \E o \in 1..MaxObjects : objects[o].state = "live" /\ c \in Held(o)

\* no call went through a child that had been deleted
NeverUsedAfter == \A u \in used : ~u.deleted

\* C21: over any sequence of constructing DynamicSelectors, adding children,
\* copying and destroying DynamicSelectors, every child is destroyed exactly
\* once (never twice, and never left undeleted with no live owner) and no
\* child is used after it has been destroyed
C21_ChildOwnership == NeverTwice /\ NeverLeaked /\ NeverUsedAfter

====
